---- MODULE Spec2Model ----
(***************************************************************************)
(* Model of stock_dashboard.py: the statistics calculator                  *)
(* (calculate_statistics), the cached fetch (get_stock_data under          *)
(* st.cache_data(ttl=300)), and the script's top-to-bottom run: sidebar    *)
(* inputs, the per-symbol render loop, and the export.                     *)
(*                                                                         *)
(* Prices are integers in mills (1/1000 of a dollar); float division is    *)
(* modelled as an exact rational with the IEEE results inf, -inf and nan   *)
(* for a zero divisor (numpy float64 does not raise on division by zero).  *)
(***************************************************************************)
EXTENDS Integers, Sequences, FiniteSets, TLC

VARIABLES
    statsIn,        \* argument handed to calculate_statistics (unit harness)
    statsOut,       \* its return value, or Pending before the call
    clock,          \* datetime.now(), in seconds
    runs,           \* number of script runs started so far
    cache,          \* st.cache_data store of get_stock_data
    pc,             \* position of the script: "idle", "loop", "export", "done"
    stock_symbols,  \* sidebar multiselect, in selection order
    date_range,     \* sidebar selectbox "Select Period"
    start_date,     \* start of the requested range
    end_date,       \* end of the requested range
    clicked,        \* st.sidebar.button("Export Data") returned True in this run
    export_format,  \* sidebar selectbox "Export Format"
    tabs,           \* st.tabs(stock_symbols)
    idx,            \* loop index i of the render loop (1-based)
    all_data,       \* dict symbol -> data, as a sequence of <<symbol, data>>
    panels,         \* what each tab shows, in processing order
    topWarning,     \* number of top-level "please select" warnings rendered
    providerCalls,  \* symbols for which yfinance was contacted in this run
    statsCalls,     \* number of calculate_statistics calls in this run
    exportOffered,  \* the export controls were rendered in the latest run
    artifact,       \* the download produced in this run, or None
    lastFetch       \* history: latest provider fetch per (symbol, selection)

vars == <<statsIn, statsOut, clock, runs, cache, pc, stock_symbols, date_range,
          start_date, end_date, clicked, export_format, tabs, idx, all_data,
          panels, topWarning, providerCalls, statsCalls, exportOffered,
          artifact, lastFetch>>

pipelineVars == <<clock, runs, cache, pc, stock_symbols, date_range,
          start_date, end_date, clicked, export_format, tabs, idx, all_data,
          panels, topWarning, providerCalls, statsCalls, exportOffered,
          artifact, lastFetch>>

\* Python None, and the harness marker for "not called yet"; data frames are
\* records [rows |-> <sequence of bars>]
None == [none |-> TRUE]
Pending == [pending |-> TRUE]

DataFrame(rows) == [rows |-> rows]

----------------------------------------------------------------------------
(* Bounds *)

MaxLen == 2
MaxRuns == 2

----------------------------------------------------------------------------
(* Price bars and series *)

Closes == {0, 1004, 1006}
Opens == {1000, 1006}
Highs == {1006, 1010}
Lows == {0, 1000}
Volumes == {500, 1000}

Bars == [Open : Opens, High : Highs, Low : Lows, Close : Closes, Volume : Volumes]

SeriesUpTo(n) == UNION {[1..k -> Bars] : k \in 0..n}

StatsInputs == {None} \cup {DataFrame(r) : r \in SeriesUpTo(MaxLen)}

----------------------------------------------------------------------------
(* Arithmetic helpers *)

RECURSIVE SeqMax(_, _)
SeqMax(s, n) == IF n = 1 THEN s[1]
                ELSE LET m == SeqMax(s, n - 1) IN IF s[n] > m THEN s[n] ELSE m

RECURSIVE SeqMin(_, _)
SeqMin(s, n) == IF n = 1 THEN s[1]
                ELSE LET m == SeqMin(s, n - 1) IN IF s[n] < m THEN s[n] ELSE m

RECURSIVE SeqSum(_, _)
SeqSum(s, n) == IF n = 0 THEN 0 ELSE SeqSum(s, n - 1) + s[n]

Column(data, f) == [k \in 1..Len(data.rows) |-> data.rows[k][f]]

NRows(data) == Len(data.rows)

\* float division: a rational, or the IEEE result for a zero divisor
FloatDiv(a, b) ==
    IF b = 0
    THEN IF a > 0 THEN [kind |-> "inf", num |-> 0, den |-> 0]
         ELSE IF a < 0 THEN [kind |-> "-inf", num |-> 0, den |-> 0]
         ELSE [kind |-> "nan", num |-> 0, den |-> 0]
    ELSE [kind |-> "num", num |-> a, den |-> b]

FloatTimes(r, k) ==
    IF r.kind = "num" THEN [r EXCEPT !.num = r.num * k] ELSE r

\* a float is the rational p / q
IsRatio(r, p, q) == r.kind = "num" /\ r.num * q = p * r.den

----------------------------------------------------------------------------
(* Display formatting *)

\* nearest integer to n / d (d > 0), ties to even
RoundDiv(n, d) ==
    LET q == n \div d
        r == n - q * d
    IN  IF 2 * r < d THEN q
        ELSE IF 2 * r > d THEN q + 1
        ELSE IF q % 2 = 0 THEN q ELSE q + 1

\* f"{x:.2f}" of a price in mills: the number of cents shown
Fmt2(mills) == RoundDiv(mills, 10)

\* f"{x:.2f}" of a float: hundredths shown, or the text inf / -inf / nan
FmtFloat2(r) ==
    IF r.kind = "num"
    THEN [text |-> "num",
          hundredths |-> IF r.den > 0 THEN RoundDiv(r.num * 100, r.den)
                         ELSE RoundDiv(-(r.num * 100), -r.den)]
    ELSE [text |-> r.kind, hundredths |-> 0]

----------------------------------------------------------------------------
(* calculate_statistics *)

IsEmpty(data) == NRows(data) = 0

CurrentPrice(data) == Column(data, "Close")[NRows(data)]

\* variant: the open field of the first bar
PreviousPrice_open(data) == Column(data, "Open")[1]

PreviousPrice(data) == Column(data, "Close")[1]

\* variant: the operands are rounded to cents before the subtraction
PriceChange_rounded(data) ==
    (RoundDiv(CurrentPrice(data), 10) - RoundDiv(PreviousPrice(data), 10)) * 10

PriceChange(data) == CurrentPrice(data) - PreviousPrice(data)

PercentageChange(data) ==
    FloatTimes(FloatDiv(PriceChange(data), PreviousPrice(data)), 100)

MaxHigh(data) == SeqMax(Column(data, "High"), NRows(data))

\* variant: the minimum is taken over the close column
MinLow_close(data) == SeqMin(Column(data, "Close"), NRows(data))

MinLow(data) == SeqMin(Column(data, "Low"), NRows(data))

MeanVolume(data) == FloatDiv(SeqSum(Column(data, "Volume"), NRows(data)), NRows(data))

\* variant: no guard for missing data, a zeroed record is returned
calculate_statistics_zeroed(data) ==
    IF data = None \/ IsEmpty(data)
    THEN [CurrentPrice |-> 0, OpeningPrice |-> 0, High |-> 0, Low |-> 0,
          PriceChange |-> 0, PercentageChange |-> FloatDiv(0, 1),
          AverageVolume |-> FloatDiv(0, 1)]
    ELSE [CurrentPrice     |-> CurrentPrice(data),
          OpeningPrice     |-> PreviousPrice(data),
          High             |-> MaxHigh(data),
          Low              |-> MinLow(data),
          PriceChange      |-> PriceChange(data),
          PercentageChange |-> PercentageChange(data),
          AverageVolume    |-> MeanVolume(data)]

calculate_statistics(data) ==
    IF data = None \/ IsEmpty(data)
    THEN None
    ELSE [CurrentPrice     |-> CurrentPrice(data),
          OpeningPrice     |-> PreviousPrice(data),
          High             |-> MaxHigh(data),
          Low              |-> MinLow(data),
          PriceChange      |-> PriceChange(data),
          PercentageChange |-> PercentageChange(data),
          AverageVolume    |-> MeanVolume(data)]
----------------------------------------------------------------------------
(* Sidebar inputs *)

Symbols == {"AAPL", "GOOGL"}

\* multiselect: any selection of distinct options, in the order chosen
Selections ==
    {sel \in UNION {[1..k -> Symbols] : k \in 0..Cardinality(Symbols)} :
        \A a, b \in 1..Len(sel) : a # b => sel[a] # sel[b]}

DateRanges == {"1 Week", "1 Month", "3 Months", "6 Months", "1 Year", "Custom"}

\* the periods the model's user picks from
PickedRanges == {"1 Week", "Custom"}

\* dates the model's user types into the two date_input widgets (day numbers)
CustomStarts == {-90, -30}
CustomEnds == {0}

\* period, start and end widgets together (the date inputs exist for Custom only)
PickedPeriods ==
    {<<r, 0, 0>> : r \in PickedRanges \ {"Custom"}}
    \cup {<<"Custom", cs, ce>> : cs \in CustomStarts, ce \in CustomEnds}

\* export button and export format
ExportInputs == {<<FALSE, "CSV">>, <<TRUE, "CSV">>, <<TRUE, "Excel">>}

DaySeconds == 86400

\* a datetime (seconds) and a date (days) are different Python values
DateTime(secs) == [datetime |-> secs]
Date(day) == [date |-> day]

PresetDays(range) ==
    IF range = "1 Week" THEN 14
    ELSE IF range = "1 Month" THEN 35
    ELSE IF range = "3 Months" THEN 95
    ELSE IF range = "6 Months" THEN 185
    ELSE 370

EndDate(range, now, customEnd) ==
    IF range = "Custom" THEN Date(customEnd) ELSE DateTime(now)

StartDate(range, now, customStart) ==
    IF range = "Custom" THEN Date(customStart)
    ELSE DateTime(now - PresetDays(range) * DaySeconds)

\* strftime('%Y-%m-%d'): the calendar day of a date or datetime
Strftime(d) ==
    IF "date" \in DOMAIN d THEN d.date ELSE d.datetime \div DaySeconds

----------------------------------------------------------------------------
(* get_stock_data and its cache *)

TTL == 300

\* what yfinance does for one request
ProviderSeries ==
    { <<[Open |-> 1000, High |-> 1006, Low |-> 1000, Close |-> 1004, Volume |-> 500],
        [Open |-> 1006, High |-> 1010, Low |-> 1000, Close |-> 1006, Volume |-> 1000]>>,
      <<[Open |-> 1000, High |-> 1006, Low |-> 0, Close |-> 0, Volume |-> 500],
        [Open |-> 1006, High |-> 1010, Low |-> 1000, Close |-> 1006, Volume |-> 1000]>> }

ProviderOutcomes ==
    {[kind |-> "ok", rows |-> r] : r \in ProviderSeries}
    \cup {[kind |-> "empty", rows |-> <<>>],
          [kind |-> "history_raises", rows |-> <<>>],
          [kind |-> "info_raises", rows |-> <<>>]}

Info(symbol) == [info |-> symbol]

\* "return data, info" (raised: an exception left the function instead)
Returned(data, info) == [data |-> data, info |-> info, raised |-> FALSE]

\* variant: no except clause, a provider exception leaves the function
get_stock_data_uncaught(symbol, start, end, outcome) ==
    IF outcome.kind \in {"history_raises", "info_raises"}
    THEN [data |-> None, info |-> None, raised |-> TRUE]
    ELSE IF outcome.rows = <<>>
    THEN Returned(None, None)
    ELSE Returned(DataFrame(outcome.rows), Info(symbol))

\* the body of get_stock_data: every exception is caught
get_stock_data(symbol, start, end, outcome) ==
    IF outcome.kind \in {"history_raises", "info_raises"}
    THEN Returned(None, None)
    ELSE IF outcome.rows = <<>>
    THEN Returned(None, None)
    ELSE Returned(DataFrame(outcome.rows), Info(symbol))

CacheKey(symbol, start, end) == [symbol |-> symbol, start |-> start, end |-> end]

Fresh(e, now) == now - e.ts < TTL

CacheHit(c, key, now) == \E e \in c : e.key = key /\ Fresh(e, now)

CacheValue(c, key, now) == (CHOOSE e \in c : e.key = key /\ Fresh(e, now)).value

\* variant: only successful fetches are stored
CacheStore_successOnly(c, key, value, now) ==
    IF value.data = None
    THEN {e \in c : e.key # key /\ Fresh(e, now)}
    ELSE {e \in c : e.key # key /\ Fresh(e, now)}
         \cup {[key |-> key, value |-> value, ts |-> now]}

\* the entry for the key is overwritten; expired entries are dropped
CacheStore(c, key, value, now) ==
    {e \in c : e.key # key /\ Fresh(e, now)}
    \cup {[key |-> key, value |-> value, ts |-> now]}

----------------------------------------------------------------------------
(* The script run *)

\* variant: the two branches are swapped
TopLevelWarnings_swapped(sel) == IF sel # <<>> THEN 1 ELSE 0

TopLevelWarnings(sel) == IF sel # <<>> THEN 0 ELSE 1

\* all_data[symbol] = data on an insertion-ordered dict
DictSet(d, k, v) ==
    IF \E j \in 1..Len(d) : d[j][1] = k
    THEN [j \in 1..Len(d) |-> IF d[j][1] = k THEN <<k, v>> ELSE d[j]]
    ELSE Append(d, <<k, v>>)

ErrorPanel(symbol, hit) ==
    [symbol |-> symbol, kind |-> "error", fromCache |-> hit, data |-> None,
     stats |-> None, price |-> 0, delta |-> 0, pct |-> None]

MetricPanel(symbol, hit, data, stats) ==
    [symbol |-> symbol, kind |-> "panel", fromCache |-> hit, data |-> data,
     stats |-> stats,
     price |-> Fmt2(stats.CurrentPrice),
     delta |-> Fmt2(stats.PriceChange),
     pct |-> FmtFloat2(stats.PercentageChange)]

\* history of provider fetches still inside the expiry window
Remember(h, symbol, range, start, end, value, now) ==
    {f \in h : ~(f.symbol = symbol /\ f.start = start /\ f.end = end)
               /\ now - f.ts < TTL}
    \cup {[symbol |-> symbol, date_range |-> range, start |-> start,
           end |-> end, value |-> value, ts |-> now]}

\* one user interaction: the widgets are read and the script starts over
Rerun(sel, range, cs, ce, click, fmt) ==
    /\ pc = "idle"
    /\ runs < MaxRuns
    /\ click => exportOffered
    /\ (fmt # "CSV") => click
    /\ runs' = runs + 1
    /\ stock_symbols' = sel
    /\ date_range' = range
    /\ start_date' = StartDate(range, clock, cs)
    /\ end_date' = EndDate(range, clock, ce)
    /\ clicked' = click
    /\ export_format' = fmt
    /\ all_data' = <<>>
    /\ panels' = <<>>
    /\ providerCalls' = <<>>
    /\ statsCalls' = 0
    /\ artifact' = None
    /\ idx' = 1
    /\ topWarning' = TopLevelWarnings(sel)
    /\ IF sel # <<>>
       THEN /\ tabs' = sel
            /\ pc' = "loop"
            /\ UNCHANGED exportOffered
       ELSE /\ tabs' = <<>>
            /\ pc' = "done"
            /\ exportOffered' = FALSE
    /\ UNCHANGED <<statsIn, statsOut, clock, cache, lastFetch>>

\* one iteration of "for i, symbol in enumerate(stock_symbols)"
ProcessSymbol(outcome) ==
    /\ pc = "loop"
    /\ LET symbol == stock_symbols[idx]
           key == CacheKey(symbol, start_date, end_date)
           hit == CacheHit(cache, key, clock)
           r == IF hit THEN CacheValue(cache, key, clock)
                ELSE get_stock_data(symbol, start_date, end_date, outcome)
           stats == calculate_statistics(r.data)
       IN  /\ IF hit
              THEN UNCHANGED <<cache, providerCalls, lastFetch>>
              ELSE /\ providerCalls' = Append(providerCalls,
                          <<symbol, Strftime(start_date), Strftime(end_date)>>)
                   /\ cache' = IF r.raised THEN cache
                               ELSE CacheStore(cache, key, r, clock)
                   /\ lastFetch' = Remember(lastFetch, symbol, date_range,
                                            start_date, end_date, r, clock)
           /\ IF r.raised
              THEN /\ pc' = "crashed"
                   /\ UNCHANGED <<all_data, panels, statsCalls, idx>>
              ELSE IF r.data # None /\ ~IsEmpty(r.data)
              THEN /\ all_data' = DictSet(all_data, symbol, r.data)
                   /\ statsCalls' = statsCalls + 1
                   /\ IF stats = None
                      THEN /\ pc' = "crashed"
                           /\ UNCHANGED <<panels, idx>>
                      ELSE /\ panels' = Append(panels,
                                  MetricPanel(symbol, hit, r.data, stats))
                           /\ idx' = idx + 1
                           /\ pc' = IF idx = Len(stock_symbols)
                                    THEN "export" ELSE "loop"
              ELSE /\ panels' = Append(panels, ErrorPanel(symbol, hit))
                   /\ idx' = idx + 1
                   /\ pc' = IF idx = Len(stock_symbols) THEN "export" ELSE "loop"
                   /\ UNCHANGED <<all_data, statsCalls>>
    /\ UNCHANGED <<statsIn, statsOut, clock, runs, stock_symbols, date_range,
                   start_date, end_date, clicked, export_format, tabs,
                   topWarning, exportOffered, artifact>>


\* variant: every frame is labelled with the first selected symbol
WithSymbol_first(data, symbol) ==
    DataFrame([k \in 1..NRows(data) |->
        [Open |-> data.rows[k].Open, High |-> data.rows[k].High,
         Low |-> data.rows[k].Low, Close |-> data.rows[k].Close,
         Volume |-> data.rows[k].Volume, Symbol |-> stock_symbols[1]]])

\* data_copy = data.copy(); data_copy['Symbol'] = symbol
WithSymbol(data, symbol) ==
    DataFrame([k \in 1..NRows(data) |->
        [Open |-> data.rows[k].Open, High |-> data.rows[k].High,
         Low |-> data.rows[k].Low, Close |-> data.rows[k].Close,
         Volume |-> data.rows[k].Volume, Symbol |-> symbol]])

\* combined_data after the loop over all_data.items()
RECURSIVE CombinedData(_, _)
CombinedData(d, n) ==
    IF n = 0 THEN <<>>
    ELSE CombinedData(d, n - 1) \o WithSymbol(d[n][2], d[n][1]).rows

\* one sheet per item of all_data
ExcelSheets(d) == [j \in 1..Len(d) |-> [sheet_name |-> d[j][1], rows |-> d[j][2].rows]]

\* file name suffix: datetime.now().strftime('%Y%m%d')
FileDay(now) == Strftime(DateTime(now))

CsvArtifact(d, now) ==
    [format |-> "CSV", file_day |-> FileDay(now),
     rows |-> CombinedData(d, Len(d)), sheets |-> <<>>]

ExcelArtifact(d, now) ==
    [format |-> "Excel", file_day |-> FileDay(now),
     rows |-> <<>>, sheets |-> ExcelSheets(d)]

\* the sidebar export section after the loop
Export ==
    /\ pc = "export"
    /\ pc' = "done"
    /\ IF all_data # <<>>
       THEN /\ exportOffered' = TRUE
            /\ artifact' = IF ~clicked THEN None
                           ELSE IF export_format = "CSV"
                           THEN CsvArtifact(all_data, clock)
                           ELSE ExcelArtifact(all_data, clock)
       ELSE /\ exportOffered' = FALSE
            /\ artifact' = None
    /\ UNCHANGED <<statsIn, statsOut, clock, runs, cache, stock_symbols,
                   date_range, start_date, end_date, clicked, export_format,
                   tabs, idx, all_data, panels, topWarning, providerCalls,
                   statsCalls, lastFetch>>

\* time between two interactions; datetime.now() never repeats
Elapsed == {TTL - 1, TTL}

Elapse(dt) ==
    /\ pc \in {"done", "crashed"}
    /\ runs < MaxRuns
    /\ pc' = "idle"
    /\ clock' = clock + dt
    /\ UNCHANGED <<statsIn, statsOut, runs, cache, stock_symbols, date_range,
                   start_date, end_date, clicked, export_format, tabs, idx,
                   all_data, panels, topWarning, providerCalls, statsCalls,
                   exportOffered, artifact, lastFetch>>

----------------------------------------------------------------------------
(* Specification of the statistics calculator on its own *)

PipelineInit ==
    /\ clock = 0
    /\ runs = 0
    /\ cache = {}
    /\ pc = "idle"
    /\ stock_symbols = <<>>
    /\ date_range = "1 Week"
    /\ start_date = 0
    /\ end_date = 0
    /\ clicked = FALSE
    /\ export_format = "CSV"
    /\ tabs = <<>>
    /\ idx = 1
    /\ all_data = <<>>
    /\ panels = <<>>
    /\ topWarning = 0
    /\ providerCalls = <<>>
    /\ statsCalls = 0
    /\ exportOffered = FALSE
    /\ artifact = None
    /\ lastFetch = {}

InitStats ==
    /\ statsIn \in StatsInputs
    /\ statsOut = Pending
    /\ PipelineInit

CallStatistics ==
    /\ statsOut = Pending
    /\ statsOut' = calculate_statistics(statsIn)
    /\ UNCHANGED <<statsIn, pipelineVars>>

NextStats == CallStatistics

SpecStats == InitStats /\ [][NextStats]_vars

----------------------------------------------------------------------------
(* Specification of the dashboard *)

Init ==
    /\ statsIn = None
    /\ statsOut = Pending
    /\ PipelineInit

Next ==
    \/ \E sel \in Selections, period \in PickedPeriods, ex \in ExportInputs :
            Rerun(sel, period[1], period[2], period[3], ex[1], ex[2])
    \/ \E outcome \in ProviderOutcomes : ProcessSymbol(outcome)
    \/ Export
    \/ \E dt \in Elapsed : Elapse(dt)

Spec == Init /\ [][Next]_vars

----------------------------------------------------------------------------
(* Properties of calculate_statistics, checked under SpecStats *)

Called == statsOut # Pending

NonEmptyIn == statsIn # None /\ statsIn.rows # <<>>

FirstBar == statsIn.rows[1]

LastBar == statsIn.rows[Len(statsIn.rows)]

InvalidBaseline == [invalid_baseline |-> TRUE]

\* C1 (as claimed): a series whose first close is 0 makes calculate_statistics
\* signal InvalidBaseline instead of a numeric percentage change; any other
\* non-empty series gives (priceChange / openingPrice) * 100.
C1_InvalidBaselineSignalled ==
    (Called /\ NonEmptyIn) =>
        IF FirstBar.Close = 0
        THEN statsOut = InvalidBaseline
        ELSE IsRatio(statsOut.PercentageChange,
                     (LastBar.Close - FirstBar.Close) * 100, FirstBar.Close)

\* C2: 'Current Price' is the close of the last bar and 'Opening Price' is
\* the close (not the open) of the first bar; on a single bar they are equal.
C2_CurrentAndOpening ==
    (Called /\ NonEmptyIn) =>
        /\ statsOut.CurrentPrice = LastBar.Close
        /\ statsOut.OpeningPrice = FirstBar.Close
        /\ (Len(statsIn.rows) = 1 => statsOut.CurrentPrice = statsOut.OpeningPrice)

C2_Witness ==
    /\ Called /\ NonEmptyIn
    /\ Len(statsIn.rows) = 2
    /\ FirstBar.Open # FirstBar.Close
    /\ FirstBar.Close # LastBar.Close
    /\ statsOut.OpeningPrice = 1004
    /\ statsOut.CurrentPrice = 1006

\* C3: an empty series or None gives None, never a record of statistics.
C3_NoData ==
    (Called /\ ~NonEmptyIn) => statsOut = None

C3_Witness ==
    /\ Called
    /\ statsIn = DataFrame(<<>>)
    /\ statsOut = None

\* C4: 'High' is the maximum high, 'Low' the minimum low, and
\* 'Average Volume' times the number of bars is the sum of the volumes.
C4_HighLowMean ==
    (Called /\ NonEmptyIn) =>
        LET rows == statsIn.rows
            n == Len(rows)
        IN  /\ \A k \in 1..n : rows[k].High <= statsOut.High
            /\ \E k \in 1..n : rows[k].High = statsOut.High
            /\ \A k \in 1..n : rows[k].Low >= statsOut.Low
            /\ \E k \in 1..n : rows[k].Low = statsOut.Low
            /\ statsOut.AverageVolume.kind = "num"
            /\ statsOut.AverageVolume.num * n =
                   SeqSum([k \in 1..n |-> rows[k].Volume], n)
                       * statsOut.AverageVolume.den

C4_Witness ==
    /\ Called /\ NonEmptyIn
    /\ Len(statsIn.rows) = 2
    /\ FirstBar.High > LastBar.High
    /\ FirstBar.Low > LastBar.Low
    /\ FirstBar.Volume # LastBar.Volume
    /\ IsRatio(statsOut.AverageVolume, 750, 1)

----------------------------------------------------------------------------
(* Properties of the dashboard, checked under Spec *)

Rendered == {j \in 1..Len(panels) : panels[j].kind = "panel"}

\* C5: 'Price Change' is exactly last close minus first close; only the
\* displayed delta is rounded to two decimals.
C5_ExactPriceChange ==
    \A j \in Rendered :
        LET rows == panels[j].data.rows
            exact == rows[Len(rows)].Close - rows[1].Close
        IN  /\ panels[j].stats.PriceChange = exact
            /\ panels[j].stats.PriceChange =
                   panels[j].stats.CurrentPrice - panels[j].stats.OpeningPrice
            /\ panels[j].delta = Fmt2(exact)

C5_Witness ==
    \E j \in Rendered :
        /\ panels[j].stats.PriceChange = 2
        /\ panels[j].delta = 0

\* C6: every selected symbol is processed in selection order and ends with a
\* panel or a per-symbol error; no fetch outcome stops the run.
C6_Isolation ==
    /\ pc # "crashed"
    /\ Len(panels) = (IF pc = "loop" THEN idx - 1 ELSE Len(stock_symbols))
    /\ \A j \in 1..Len(panels) :
           /\ panels[j].symbol = stock_symbols[j]
           /\ panels[j].kind \in {"panel", "error"}

C6_Witness ==
    /\ pc = "done"
    /\ Len(stock_symbols) = 2
    /\ Len(providerCalls) = 2
    /\ panels[1].kind = "error"
    /\ panels[2].kind = "panel"
    /\ panels[2].pct.text = "inf"

SameSelection(f) ==
    /\ f.symbol = stock_symbols[idx]
    /\ f.date_range = date_range
    /\ date_range = "Custom" => (f.start = start_date /\ f.end = end_date)

\* C7 (as claimed): a symbol is served from the cache, with no provider call,
\* exactly when the same symbol and date-range selection (preset or custom)
\* was fetched from the provider less than 300 s earlier.
C7_SameSelectionCached ==
    [][pc = "loop" =>
          ((\E f \in lastFetch : SameSelection(f) /\ clock - f.ts < TTL)
              <=> providerCalls' = providerCalls)]_vars

StripSymbol(r) ==
    [Open |-> r.Open, High |-> r.High, Low |-> r.Low, Close |-> r.Close,
     Volume |-> r.Volume]

RowsOf(rows, symbol) ==
    LET Mine(r) == r.Symbol = symbol
        mine == SelectSeq(rows, Mine)
    IN  [k \in 1..Len(mine) |-> StripSymbol(mine[k])]

\* C8: the export holds every bar of every symbol fetched in this run,
\* attributed to its symbol, nothing else, and leaves the series untouched.
C8_ExportContents ==
    artifact # None =>
        /\ \A j \in Rendered :
               /\ \E k \in 1..Len(all_data) :
                      all_data[k] = <<panels[j].symbol, panels[j].data>>
               /\ artifact.format = "CSV" =>
                      RowsOf(artifact.rows, panels[j].symbol) = panels[j].data.rows
               /\ artifact.format = "Excel" =>
                      \E k \in 1..Len(artifact.sheets) :
                          /\ artifact.sheets[k].sheet_name = panels[j].symbol
                          /\ artifact.sheets[k].rows = panels[j].data.rows
                          /\ \A m \in 1..Len(artifact.sheets) :
                                 artifact.sheets[m].sheet_name = panels[j].symbol
                                     => m = k
        /\ \A k \in 1..Len(artifact.rows) :
               \E j \in Rendered : artifact.rows[k].Symbol = panels[j].symbol
        /\ \A k \in 1..Len(artifact.sheets) :
               \E j \in Rendered : artifact.sheets[k].sheet_name = panels[j].symbol

C8_Witness ==
    /\ artifact # None
    /\ artifact.format = "CSV"
    /\ Len(panels) = 2
    /\ Rendered = {1, 2}
    /\ panels[1].data # panels[2].data
    /\ Len(artifact.rows) = 4

\* C9: with nothing selected a run shows one top-level warning and nothing
\* else; with a selection it shows no warning and one tab per symbol.
C9_EmptySelection ==
    runs > 0 =>
        IF stock_symbols = <<>>
        THEN /\ topWarning = 1
             /\ providerCalls = <<>>
             /\ statsCalls = 0
             /\ panels = <<>>
             /\ tabs = <<>>
             /\ ~exportOffered
             /\ artifact = None
             /\ pc \in {"done", "idle"}
        ELSE /\ topWarning = 0
             /\ tabs = stock_symbols

C9_Witness ==
    /\ runs = 2
    /\ pc = "done"
    /\ stock_symbols = <<>>
    /\ cache # {}
    /\ topWarning = 1

\* C10: after a failed or empty fetch for a key, the same key within 300 s
\* gives "no data" again without contacting the provider.
C10_FailureCached ==
    [][pc = "loop" =>
          \A f \in lastFetch :
              (/\ f.symbol = stock_symbols[idx]
               /\ f.start = start_date
               /\ f.end = end_date
               /\ f.value.data = None
               /\ clock - f.ts < TTL)
              => /\ providerCalls' = providerCalls
                 /\ Len(panels') = idx
                 /\ panels'[idx].kind = "error"]_vars

C10_Witness ==
    \E j \in 1..Len(panels) :
        /\ panels[j].kind = "error"
        /\ panels[j].fromCache
        /\ providerCalls = <<>>

====
